---------------------------- MODULE Spec2Model ----------------------------
(***************************************************************************)
(* Model of src/src/App.js: the todo collection held in React state, the   *)
(* id counter held in a ref, and the three memoized handles onInsert,      *)
(* onRemove and onToggle that enqueue functional updates.                  *)
(*                                                                         *)
(* Objects are modelled with a heap: heap[r] is the object with reference  *)
(* r, and a collection is a sequence of references, so that "the same      *)
(* object" and "a copy with the same content" are different things.        *)
(* Objects are never written after they are created (the code only builds  *)
(* new ones), so the heap only grows.                                      *)
(***************************************************************************)
EXTENDS Integers, Sequences, FiniteSets, TLC

\* Bounds of the model.
SeedLast == 1        \* last index of the seeding loop (25000 in the source)
MaxCalls == 3        \* number of handle invocations explored
Texts == {"", "a"}   \* texts handed to onInsert

\* README useReducer version: useRef(1)
NextIdInitReadme == 1

\* useRef(25001)
NextIdInit == 25001

VARIABLES
  heap,      \* heap[r]: the entry object with reference r
  todos,     \* the committed state of useState: a sequence of references
  nextId,    \* nextId.current
  queue,     \* updates given to setTodos and not yet processed
  handles,   \* the useCallback hooks of onInsert, onRemove, onToggle
  renders,   \* number of renders of App after the first
  calls,     \* history: the handle invocations, in invocation order
  applied,   \* history: before/after collection of every processed update
  viewport,  \* ViewportState of the list: scrollOffset, viewportSize,
             \* rowHeight, overscan
  slots,     \* the RowSlots: the index each is bound to, the props and
             \* the entry last rendered into it
  peak,      \* history: the largest size the visible range has had
  lastEvent, \* history: what the last CollectionChanged / ScrollChanged did
  rTodos,    \* README useReducer App: the state of useReducer
  rNextId,   \* README useReducer App: nextId.current
  rQueue     \* README useReducer App: dispatched actions not yet reduced

appVars == <<heap, todos, nextId, queue, handles, renders, calls, applied>>

viewVars == <<viewport, slots, peak, lastEvent>>

reducerVars == <<rTodos, rNextId, rQueue>>

vars == <<heap, todos, nextId, queue, handles, renders, calls, applied,
          viewport, slots, peak, lastEvent, rTodos, rNextId, rQueue>>

----------------------------------------------------------------------------
\* Text formatting: the decimal digits of a natural number.
Digits == <<"0", "1", "2", "3", "4", "5", "6", "7", "8", "9">>

RECURSIVE ToStr(_)
ToStr(n) == IF n < 10 THEN Digits[n + 1]
            ELSE ToStr(n \div 10) \o Digits[(n % 10) + 1]

\* The template literal of createBulkTodos (its Korean prefix is written
\* "todo " here: the prefix is a fixed string and only has to be the same
\* for every seed entry).
SeedText(i) == "todo " \o ToStr(i)

\* The loop of createBulkTodos up to a last index:
\* for (i = 0; i <= last; i++) push {id: i, text: ..., checked: false}.
\* The object pushed at iteration i gets reference i + 1.
BulkTodos(last) ==
  [r \in 1..(last + 1) |->
     [id |-> r - 1, text |-> SeedText(r - 1), checked |-> FALSE]]

\* The array of the objects of BulkTodos(last), as references.
BulkRefs(last) == [r \in 1..(last + 1) |-> r]

\* createBulkTodos()
createBulkTodos == BulkTodos(SeedLast)

SeedTodos == BulkRefs(SeedLast)

----------------------------------------------------------------------------
\* The updates the handles give to setTodos. seen is the collection the
\* closure of the handle could see when it was created.

\* README "before": setTodos(todos.concat(todo)) with the captured todos.
OnInsertUpdateStale(seen, todo) ==
  [kind |-> "value", op |-> "concat", todo |-> todo, id |-> 0,
   value |-> Append(seen, todo)]

\* setTodos((todos) => todos.concat(todo))
OnInsertUpdate(seen, todo) ==
  [kind |-> "fn", op |-> "concat", todo |-> todo, id |-> 0, value |-> <<>>]

\* setTodos((todos) => todos.filter((todo) => todo.id !== id))
OnRemoveUpdate(seen, id) ==
  [kind |-> "fn", op |-> "filter", todo |-> 0, id |-> id, value |-> <<>>]

\* setTodos((todos) => todos.map(...))
OnToggleUpdate(seen, id) ==
  [kind |-> "fn", op |-> "map", todo |-> 0, id |-> id, value |-> <<>>]

\* nextId.current += 1, without the increment
NextIdKept(n) == n

\* nextId.current += 1
NextIdAfterInsert(n) == n + 1

----------------------------------------------------------------------------
\* The updater functions, applied to a collection t over the heap h.

\* an insertion at the front instead of the end
ConcatFront(t, todo) == <<todo>> \o t

\* todos.concat(todo)
Concat(t, todo) == Append(t, todo)

\* a filter that keeps the matching entries instead of dropping them
FilterKeepsMatch(h, t, id) == SelectSeq(t, LAMBDA r : h[r].id = id)

\* todos.filter((todo) => todo.id !== id)
Filter(h, t, id) == SelectSeq(t, LAMBDA r : h[r].id # id)

\* a copy that sets checked instead of flipping it
ToggleEntrySets(e) == [e EXCEPT !.checked = TRUE]

\* { ...todo, checked: !todo.checked }
ToggleEntry(e) == [e EXCEPT !.checked = ~e.checked]

\* a map that flips checked in the matching objects themselves
RECURSIVE MapInPlace(_, _, _)
MapInPlace(h, t, id) ==
  IF t = <<>> THEN [heap |-> h, todos |-> <<>>]
  ELSE LET e == h[Head(t)]
           g == IF e.id = id THEN [h EXCEPT ![Head(t)] = ToggleEntry(e)]
                ELSE h
           r == MapInPlace(g, Tail(t), id)
       IN [heap |-> r.heap, todos |-> <<Head(t)>> \o r.todos]

\* a map that copies every entry, matching or not
RECURSIVE MapCopiesAll(_, _, _)
MapCopiesAll(h, t, id) ==
  IF t = <<>> THEN [heap |-> h, todos |-> <<>>]
  ELSE LET e == h[Head(t)]
           c == IF e.id = id THEN ToggleEntry(e) ELSE e
           r == MapCopiesAll(Append(h, c), Tail(t), id)
       IN [heap |-> r.heap, todos |-> <<Len(h) + 1>> \o r.todos]

\* todos.map((todo) => todo.id === id ? {...todo, checked: ...} : todo)
\* Every matching entry is replaced by a newly allocated copy; the others
\* are passed on as they are.
RECURSIVE Map(_, _, _)
Map(h, t, id) ==
  IF t = <<>> THEN [heap |-> h, todos |-> <<>>]
  ELSE LET e == h[Head(t)]
       IN IF e.id = id
          THEN LET r == Map(Append(h, ToggleEntry(e)), Tail(t), id)
               IN [heap |-> r.heap, todos |-> <<Len(h) + 1>> \o r.todos]
          ELSE LET r == Map(h, Tail(t), id)
               IN [heap |-> r.heap, todos |-> <<Head(t)>> \o r.todos]

\* One update of the queue of useState: a function is called with the
\* state reached so far, a value replaces it.
ApplyUpdate(h, t, u) ==
  IF u.kind = "value" THEN [heap |-> h, todos |-> u.value]
  ELSE IF u.op = "concat" THEN [heap |-> h, todos |-> Concat(t, u.todo)]
  ELSE IF u.op = "filter" THEN [heap |-> h, todos |-> Filter(h, t, u.id)]
  ELSE Map(h, t, u.id)

\* The queue is processed in order, each update from the result of the one
\* before it. log records the collection before and after every update.
RECURSIVE Reduce(_, _, _)
Reduce(h, t, q) ==
  IF q = <<>> THEN [heap |-> h, todos |-> t, log |-> <<>>]
  ELSE LET s == ApplyUpdate(h, t, Head(q))
           r == Reduce(s.heap, s.todos, Tail(q))
       IN [heap |-> r.heap, todos |-> r.todos,
           log |-> <<[before |-> t, after |-> s.todos]>> \o r.log]

----------------------------------------------------------------------------
\* useCallback.

\* README "before": the dependency list [todos]
CallbackDepsTodos(t) == <<t>>

\* the dependency list [] of the three useCallback calls
CallbackDeps(t) == <<>>

\* useCallback(fn, deps): the memoized function is kept while the
\* dependency list is unchanged, else the function of this render is taken.
UseCallback(hook, fresh, deps) ==
  IF hook.deps = deps THEN hook ELSE [value |-> fresh, deps |-> deps]

\* The function object a render creates for a handle: its identity is the
\* render that created it, and it closes over the todos of that render.
Closure(name, r, t) == [fn |-> name, born |-> r, seen |-> t]

HandleNames == {"onInsert", "onRemove", "onToggle"}

----------------------------------------------------------------------------
\* The first render of App, with a seed of the objects 0..last.
AppInit(last) ==
  /\ heap = BulkTodos(last)
  /\ todos = BulkRefs(last)
  /\ nextId = NextIdInit
  /\ queue = <<>>
  /\ handles = [n \in HandleNames |->
                  [value |-> Closure(n, 0, BulkRefs(last)),
                   deps |-> CallbackDeps(BulkRefs(last))]]
  /\ renders = 0
  /\ calls = <<>>
  /\ applied = <<>>


\* The ids a caller may pass to onRemove and onToggle: the seed ids, the
\* ids handed out so far, and one that was never handed out.
IdChoices == (0..SeedLast) \cup (NextIdInit..nextId)

\* onInsert(text)
OnInsert(text) ==
  /\ heap' = Append(heap, [id |-> nextId, text |-> text, checked |-> FALSE])
  /\ queue' = Append(queue,
                OnInsertUpdate(handles["onInsert"].value.seen, Len(heap) + 1))
  /\ nextId' = NextIdAfterInsert(nextId)
  /\ calls' = Append(calls, [op |-> "insert", text |-> text, id |-> nextId,
                             todo |-> Len(heap) + 1,
                             genBefore |-> nextId, genAfter |-> nextId'])
  /\ UNCHANGED <<todos, handles, renders, applied>>

\* onRemove(id)
OnRemove(id) ==
  /\ queue' = Append(queue, OnRemoveUpdate(handles["onRemove"].value.seen, id))
  /\ calls' = Append(calls, [op |-> "remove", text |-> "", id |-> id,
                             todo |-> 0,
                             genBefore |-> nextId, genAfter |-> nextId])
  /\ UNCHANGED <<heap, todos, nextId, handles, renders, applied>>

\* onToggle(id)
OnToggle(id) ==
  /\ queue' = Append(queue, OnToggleUpdate(handles["onToggle"].value.seen, id))
  /\ calls' = Append(calls, [op |-> "toggle", text |-> "", id |-> id,
                             todo |-> 0,
                             genBefore |-> nextId, genAfter |-> nextId])
  /\ UNCHANGED <<heap, todos, nextId, handles, renders, applied>>

\* A render of App after setTodos: useState processes the queued updates,
\* useRef returns the same ref, the three useCallback calls run.
Render ==
  /\ queue # <<>>
  /\ LET s == Reduce(heap, todos, queue)
     IN /\ heap' = s.heap
        /\ todos' = s.todos
        /\ applied' = applied \o s.log
        /\ handles' = [n \in HandleNames |->
                         UseCallback(handles[n],
                                     Closure(n, renders + 1, s.todos),
                                     CallbackDeps(s.todos))]
  /\ queue' = <<>>
  /\ renders' = renders + 1
  /\ UNCHANGED <<nextId, calls>>

----------------------------------------------------------------------------
\* TodoList: the rows of the list. The props of a row and their comparison
\* are those of the README's TodoList and React.memo(TodoListItem); the
\* windowing and the slot pool follow the design of the Viewport Scheduler
\* and the Render Driver.

\* <List height={513} rowHeight={57}>
ViewportSize == 513
RowHeight == 57

\* rows rendered beyond the visible ones
Overscan == 0

\* The identity of the function a useCallback hook returns.
HandleId(hook) == [fn |-> hook.value.fn, born |-> hook.value.born]

\* rowRenderer: the props of the row at an index (0-based) of todos.
RowProps(t, hs, index) ==
  [todo |-> t[index + 1],
   onRemove |-> HandleId(hs["onRemove"]),
   onToggle |-> HandleId(hs["onToggle"])]

\* a comparison that leaves the entry out
ShouldRecomputeCallbacksOnly(prev, next) ==
  \/ prev.onRemove # next.onRemove
  \/ prev.onToggle # next.onToggle

\* React.memo(TodoListItem): the row is rendered again unless todo,
\* onRemove and onToggle are each the same object as before.
ShouldRecompute(prev, next) ==
  \/ prev.todo # next.todo
  \/ prev.onRemove # next.onRemove
  \/ prev.onToggle # next.onToggle

Clamp(x, lo, hi) == IF x < lo THEN lo ELSE IF x > hi THEN hi ELSE x

\* floor(a / b) and ceil(a / b) for a >= 0, b > 0
FloorDiv(a, b) == a \div b

CeilDiv(a, b) == (a + b - 1) \div b

\* a first index that ignores the overscan
FirstIndexNoOverscan(len, vp) ==
  Clamp(FloorDiv(vp.scrollOffset, vp.rowHeight), 0, len)

\* firstIndex = clamp(floor(scrollOffset / rowHeight) - overscan, 0, length)
FirstIndex(len, vp) ==
  Clamp(FloorDiv(vp.scrollOffset, vp.rowHeight) - vp.overscan, 0, len)

\* a last index computed from the viewport size alone
LastIndexNoScroll(len, vp) ==
  Clamp(CeilDiv(vp.viewportSize, vp.rowHeight) + vp.overscan, 0, len)

\* a last index computed with floor instead of ceil
LastIndexFloor(len, vp) ==
  Clamp(FloorDiv(vp.scrollOffset + vp.viewportSize, vp.rowHeight)
          + vp.overscan, 0, len)

\* lastIndex = clamp(ceil((scrollOffset + viewportSize) / rowHeight)
\*                     + overscan, 0, length)
LastIndex(len, vp) ==
  Clamp(CeilDiv(vp.scrollOffset + vp.viewportSize, vp.rowHeight)
          + vp.overscan, 0, len)

\* visibleRange = [firstIndex, lastIndex)
VisibleRange(len, vp) == FirstIndex(len, vp)..(LastIndex(len, vp) - 1)

\* A slot that is in the pool: bound to no index, with nothing rendered.
NoHandle == [fn |-> "", born |-> -1]

NoProps == [todo |-> 0, onRemove |-> NoHandle, onToggle |-> NoHandle]

NoEntry == [id |-> -1, text |-> "", checked |-> FALSE]

FreeSlot == [index |-> -1, props |-> NoProps, shown |-> NoEntry]

BoundIndices(sl) == {sl[k].index : k \in DOMAIN sl} \ {-1}

FreeSlots(sl) == {k \in DOMAIN sl : sl[k].index = -1}

Min(S) == CHOOSE x \in S : \A y \in S : x <= y

\* a release that destroys the slots that leave the range
ReleaseDestroys(sl, range) == SelectSeq(sl, LAMBDA x : x.index \in range)

\* The slots whose index is outside the range go back to the pool.
Release(sl, range) ==
  [k \in DOMAIN sl |-> IF sl[k].index \in range THEN sl[k] ELSE FreeSlot]

\* an assignment that allocates a slot for every entering index
RECURSIVE AssignAllocates(_, _)
AssignAllocates(sl, entering) ==
  IF entering = {} THEN sl
  ELSE LET i == Min(entering)
       IN AssignAllocates(Append(sl, [FreeSlot EXCEPT !.index = i]),
                          entering \ {i})

\* The indices that enter the range get a slot of the pool each; a slot is
\* allocated only when the pool is empty.
RECURSIVE Assign(_, _)
Assign(sl, entering) ==
  IF entering = {} THEN sl
  ELSE LET i == Min(entering)
           free == FreeSlots(sl)
       IN IF free # {}
          THEN Assign([sl EXCEPT ![Min(free)] = [FreeSlot EXCEPT !.index = i]],
                      entering \ {i})
          ELSE Assign(Append(sl, [FreeSlot EXCEPT !.index = i]),
                      entering \ {i})

Recycle(sl, range) ==
  Assign(Release(sl, range), range \ BoundIndices(Release(sl, range)))

\* renderRow: the row of props is rendered into the slot.
Paint(h, slot, props) ==
  [slot EXCEPT !.props = props, !.shown = h[props.todo]]

\* The slots that keep their index and whose row is asked to render again.
Requested(kind, t, hs, sl) ==
  {k \in DOMAIN sl :
     /\ sl[k].index # -1
     /\ sl[k].props # NoProps
     /\ kind = "collection"
     /\ ShouldRecompute(sl[k].props, RowProps(t, hs, sl[k].index))}

\* The slots bound to an index that has just entered the range.
Entered(sl) == {k \in DOMAIN sl : sl[k].index # -1 /\ sl[k].props = NoProps}

\* One event of the Render Driver, for the collection t over the heap h,
\* the hooks hs, the viewport vp and the slots sl: the range is computed,
\* the slots are recycled, the rows that entered are rendered, and after a
\* change of the collection the rows whose props changed are rendered again.
DriverStep(kind, h, t, hs, vp, sl, updates) ==
  LET range == VisibleRange(Len(t), vp)
      kept == Release(sl, range)
      rec == Recycle(sl, range)
      req == Requested(kind, t, hs, rec)
      ent == Entered(rec)
  IN [slots |->
        [k \in DOMAIN rec |->
           IF k \in req \cup ent
           THEN Paint(h, rec[k], RowProps(t, hs, rec[k].index))
           ELSE rec[k]],
      event |->
        [kind |-> kind,
         updates |-> updates,
         range |-> range,
         compared |->
           {[prev |-> rec[k].props,
             next |-> RowProps(t, hs, rec[k].index),
             recompute |-> k \in req] :
              k \in {x \in DOMAIN rec :
                       rec[x].index # -1 /\ rec[x].props # NoProps}},
         requested |-> req,
         entered |-> ent,
         entering |-> Cardinality(range \ BoundIndices(kept)),
         free |-> Cardinality(FreeSlots(kept)),
         before |-> Len(sl)]]

\* The list is mounted with the collection of the first render.
ViewInit(vp) ==
  /\ viewport = vp
  /\ LET d == DriverStep("mount", heap, todos, handles, vp, <<>>, 0)
     IN /\ slots = d.slots
        /\ lastEvent = d.event
        /\ peak = Cardinality(d.event.range)

\* CollectionChanged(newCollection), run by the render that installs it.
CollectionChanged ==
  LET d == DriverStep("collection", heap', todos', handles', viewport, slots,
                      Len(queue))
  IN /\ slots' = d.slots
     /\ lastEvent' = d.event
     /\ peak' = IF Cardinality(d.event.range) > peak
                THEN Cardinality(d.event.range) ELSE peak
     /\ viewport' = viewport

\* ScrollChanged(newOffset)
ScrollChanged(offset) ==
  /\ offset # viewport.scrollOffset
  /\ viewport' = [viewport EXCEPT !.scrollOffset = offset]
  /\ LET d == DriverStep("scroll", heap, todos, handles, viewport', slots, 0)
     IN /\ slots' = d.slots
        /\ lastEvent' = d.event
        /\ peak' = IF Cardinality(d.event.range) > peak
                   THEN Cardinality(d.event.range) ELSE peak

----------------------------------------------------------------------------
\* The App of the README's useReducer section, on entries as values. It is
\* started from the same collection and counter as App; the handlers the
\* README leaves out dispatch the REMOVE and TOGGLE actions of todoReducer.

\* function todoReducer(todos, action)
todoReducer(t, action) ==
  IF action.type = "INSERT" THEN Append(t, action.todo)
  ELSE IF action.type = "REMOVE"
  THEN SelectSeq(t, LAMBDA e : e.id # action.id)
  ELSE IF action.type = "TOGGLE"
  THEN [k \in 1..Len(t) |->
          IF t[k].id = action.id
          THEN [t[k] EXCEPT !.checked = ~t[k].checked]
          ELSE t[k]]
  ELSE t

\* useReducer: the dispatched actions are reduced in order.
RECURSIVE ReduceActions(_, _)
ReduceActions(t, q) ==
  IF q = <<>> THEN t ELSE ReduceActions(todoReducer(t, Head(q)), Tail(q))

\* README onInsert: the handler ends after dispatch; nextId.current is
\* left as it is.
ReducerNextIdAfterInsert(n) == n

ReducerInit(last) ==
  /\ rTodos = BulkTodos(last)
  /\ rNextId = NextIdInit
  /\ rQueue = <<>>

\* README onInsert: dispatch({ type: 'INSERT', todo })
ReducerOnInsert(text) ==
  /\ rQueue' = Append(rQueue,
                 [type |-> "INSERT", id |-> 0,
                  todo |-> [id |-> rNextId, text |-> text, checked |-> FALSE]])
  /\ rNextId' = ReducerNextIdAfterInsert(rNextId)
  /\ UNCHANGED rTodos

\* dispatch({ type: 'REMOVE', id })
ReducerOnRemove(id) ==
  /\ rQueue' = Append(rQueue, [type |-> "REMOVE", id |-> id, todo |-> NoEntry])
  /\ UNCHANGED <<rTodos, rNextId>>

\* dispatch({ type: 'TOGGLE', id })
ReducerOnToggle(id) ==
  /\ rQueue' = Append(rQueue, [type |-> "TOGGLE", id |-> id, todo |-> NoEntry])
  /\ UNCHANGED <<rTodos, rNextId>>

\* A render of the useReducer App after dispatch.
ReducerRender ==
  /\ rQueue # <<>>
  /\ rTodos' = ReduceActions(rTodos, rQueue)
  /\ rQueue' = <<>>
  /\ UNCHANGED rNextId

----------------------------------------------------------------------------
\* The steps of the program: a call of a handle leaves the list alone
\* until App renders; a render of App renders the list.
Insert(text) == OnInsert(text) /\ UNCHANGED <<viewVars, reducerVars>>

Remove(id) == OnRemove(id) /\ UNCHANGED <<viewVars, reducerVars>>

Toggle(id) == OnToggle(id) /\ UNCHANGED <<viewVars, reducerVars>>

Commit == Render /\ CollectionChanged /\ UNCHANGED reducerVars

Scroll(offset) ==
  ScrollChanged(offset) /\ UNCHANGED <<appVars, reducerVars>>

\* The viewport of the README's list.
ListViewport ==
  [scrollOffset |-> 0, viewportSize |-> ViewportSize,
   rowHeight |-> RowHeight, overscan |-> Overscan]

Init ==
  AppInit(SeedLast) /\ ViewInit(ListViewport) /\ ReducerInit(SeedLast)

Next ==
  \/ Len(calls) < MaxCalls /\ \E text \in Texts : Insert(text)
  \/ Len(calls) < MaxCalls /\ \E id \in IdChoices : Remove(id)
  \/ Len(calls) < MaxCalls /\ \E id \in IdChoices : Toggle(id)
  \/ Commit

Spec == Init /\ [][Next]_vars

----------------------------------------------------------------------------
\* Vocabulary of the properties.

\* The entries of a collection, by value.
Content(t) == [k \in 1..Len(t) |-> heap[t[k]]]

Ids(t) == [k \in 1..Len(t) |-> heap[t[k]].id]

HasId(t, id) == \E k \in 1..Len(t) : heap[t[k]].id = id

Refs(t) == {t[k] : k \in 1..Len(t)}

\* The mutation a call asks for, on a collection of entry values.
CallStep(c, call) ==
  IF call.op = "insert"
  THEN c \o <<[id |-> call.genBefore, text |-> call.text, checked |-> FALSE]>>
  ELSE IF call.op = "remove"
  THEN SelectSeq(c, LAMBDA e : e.id # call.id)
  ELSE [k \in 1..Len(c) |->
          IF c[k].id = call.id
          THEN [id |-> c[k].id, text |-> c[k].text, checked |-> ~c[k].checked]
          ELSE c[k]]

\* The mutations of a sequence of calls, one after another.
RECURSIVE CallsApplied(_, _)
CallsApplied(c, cs) ==
  IF cs = <<>> THEN c ELSE CallsApplied(CallStep(c, Head(cs)), Tail(cs))

\* The calls whose update has been processed are calls[1..Len(applied)],
\* and applied[k] is the processing of calls[k].
NumApplied(op) == Cardinality({k \in DOMAIN applied : calls[k].op = op})

NumRemovesOfPresent ==
  Cardinality({k \in DOMAIN applied :
                 calls[k].op = "remove" /\ HasId(applied[k].before, calls[k].id)})

----------------------------------------------------------------------------
\* C1: every call is either processed or still queued, in invocation order,
\* and the committed collection is the seed with the mutations of the
\* processed calls applied one after another in invocation order.
C1_LatestCommitted ==
  /\ Len(applied) + Len(queue) = Len(calls)
  /\ Content(todos) =
       CallsApplied(Content(SeedTodos), SubSeq(calls, 1, Len(applied)))

\* Two renders, the second of which processed a batch of two calls, one of
\* them an insert made through the handle created before the first edit.
C1_Witness ==
  /\ renders = 2
  /\ Len(applied) = 3
  /\ calls[1].op = "insert"
  /\ calls[3].op = "insert"
  /\ Len(todos) > Len(SeedTodos)

\* C2: the id of an inserted entry is greater than every seed id and every
\* id handed out by an earlier insert, whether or not the entries are still
\* in the collection; no update changes the id of an entry it keeps.
C2_IdsNeverReused ==
  /\ \A i \in DOMAIN calls :
       calls[i].op = "insert" =>
         /\ \A r \in DOMAIN createBulkTodos :
              heap[calls[i].todo].id > createBulkTodos[r].id
         /\ \A j \in 1..(i - 1) :
              calls[j].op = "insert" =>
                heap[calls[i].todo].id > heap[calls[j].todo].id
  /\ \A k \in DOMAIN applied :
       LET b == applied[k].before
           a == applied[k].after
       IN /\ calls[k].op = "insert" =>
               SubSeq(Ids(a), 1, Len(b)) = Ids(b)
          /\ calls[k].op = "toggle" => Ids(a) = Ids(b)
          /\ calls[k].op = "remove" =>
               Ids(a) = SelectSeq(Ids(b), LAMBDA x : x # calls[k].id)

\* An insert, the removal of the inserted entry, and another insert.
C2_Witness ==
  /\ Len(applied) = 3
  /\ calls[1].op = "insert"
  /\ calls[2].op = "remove" /\ calls[2].id = calls[1].genBefore
  /\ calls[3].op = "insert"
  /\ ~HasId(todos, calls[1].genBefore)

\* C3: the ids of the collection are pairwise distinct.
C3_IdsDistinct ==
  \A i, j \in DOMAIN todos :
    i # j => heap[todos[i]].id # heap[todos[j]].id

\* A collection that holds seed entries and two inserted entries.
C3_Witness ==
  /\ Len(todos) = Len(SeedTodos) + 2
  /\ NumApplied("insert") = 2

\* C4: a processed insert leaves the prior entries first, in order and by
\* reference, followed by one new object {id: the counter's value at the
\* call, text: the text given, checked: false}; the call advances the
\* counter by one.
C4_Insert ==
  \A k \in DOMAIN applied :
    calls[k].op = "insert" =>
      LET b == applied[k].before
          a == applied[k].after
      IN /\ Len(a) = Len(b) + 1
         /\ SubSeq(a, 1, Len(b)) = b
         /\ a[Len(a)] \notin Refs(b)
         /\ heap[a[Len(a)]] =
              [id |-> calls[k].genBefore, text |-> calls[k].text,
               checked |-> FALSE]
         /\ calls[k].genAfter = calls[k].genBefore + 1

\* Processed inserts of the empty text and of a non-empty text.
C4_Witness ==
  /\ \E k \in DOMAIN applied : calls[k].op = "insert" /\ calls[k].text = ""
  /\ \E k \in DOMAIN applied : calls[k].op = "insert" /\ calls[k].text = "a"

\* C5: a processed toggle of a present id keeps the length; the entry with
\* that id stays at its index with its id and text and with checked
\* flipped; every other entry stays at its index and is the same object;
\* the call leaves the counter alone.
C5_TogglePresent ==
  \A k \in DOMAIN applied :
    (calls[k].op = "toggle" /\ HasId(applied[k].before, calls[k].id)) =>
      LET b == applied[k].before
          a == applied[k].after
      IN /\ Len(a) = Len(b)
         /\ \A x \in 1..Len(b) :
              IF heap[b[x]].id = calls[k].id
              THEN /\ heap[a[x]].id = heap[b[x]].id
                   /\ heap[a[x]].text = heap[b[x]].text
                   /\ heap[a[x]].checked = ~heap[b[x]].checked
              ELSE a[x] = b[x]
         /\ calls[k].genAfter = calls[k].genBefore

\* A processed toggle of a present id in a collection of at least three
\* entries, one of them inserted.
C5_Witness ==
  \E k \in DOMAIN applied :
    /\ calls[k].op = "toggle"
    /\ HasId(applied[k].before, calls[k].id)
    /\ Len(applied[k].before) > Len(SeedTodos)

\* C6: a processed remove of a present id yields the prior collection with
\* the entry of that id taken out: the entries before it and after it are
\* the same objects in the same order; the call leaves the counter alone.
C6_RemovePresent ==
  \A k \in DOMAIN applied :
    (calls[k].op = "remove" /\ HasId(applied[k].before, calls[k].id)) =>
      LET b == applied[k].before
          a == applied[k].after
      IN /\ \E x \in 1..Len(b) :
              /\ heap[b[x]].id = calls[k].id
              /\ a = SubSeq(b, 1, x - 1) \o SubSeq(b, x + 1, Len(b))
         /\ calls[k].genAfter = calls[k].genBefore

\* A processed remove of an entry that has entries on both sides.
C6_Witness ==
  \E k \in DOMAIN applied :
    /\ calls[k].op = "remove"
    /\ Len(applied[k].before) >= 3
    /\ heap[applied[k].before[2]].id = calls[k].id
    /\ Len(applied[k].after) = Len(applied[k].before) - 1

\* C7: a processed remove or toggle of an id that no entry holds yields a
\* collection with the same entries in the same order, and the call leaves
\* the counter alone.
C7_AbsentNoOp ==
  \A k \in DOMAIN applied :
    (calls[k].op \in {"remove", "toggle"}
       /\ ~HasId(applied[k].before, calls[k].id)) =>
      /\ Content(applied[k].after) = Content(applied[k].before)
      /\ calls[k].genAfter = calls[k].genBefore

\* A remove of an id that was removed before, and a toggle of an id that
\* was never handed out.
C7_Witness ==
  /\ \E k \in DOMAIN applied :
       /\ calls[k].op = "remove"
       /\ ~HasId(applied[k].before, calls[k].id)
       /\ \E j \in 1..(k - 1) :
            calls[j].op = "remove" /\ calls[j].id = calls[k].id
  /\ \E k \in DOMAIN applied :
       /\ calls[k].op = "toggle"
       /\ calls[k].id >= calls[k].genBefore

\* C8 as stated: the length is the number of inserts minus the number of
\* removes of present ids.
C8_LengthAsStated ==
  queue = <<>> =>
    Len(todos) = NumApplied("insert") - NumRemovesOfPresent

\* C8, amended: the length is the length of the seed collection plus the
\* number of inserts minus the number of removes of present ids.
C8_Length ==
  Len(todos) = Len(SeedTodos) + NumApplied("insert") - NumRemovesOfPresent

\* An insert, a remove of a present id and a remove of an absent id.
C8_Witness ==
  /\ NumApplied("insert") = 1
  /\ NumRemovesOfPresent = 1
  /\ NumApplied("remove") = 2

\* C9: no step changes the identity of onInsert, onRemove or onToggle.
C9_HandlesStable ==
  [][\A n \in HandleNames :
       /\ handles'[n].value.fn = handles[n].value.fn
       /\ handles'[n].value.born = handles[n].value.born]_vars

\* The collection has been replaced three times and differs from the seed.
C9_Witness ==
  /\ renders = 3
  /\ Content(todos) # Content(SeedTodos)
  /\ \A n \in HandleNames : handles[n].value.born = 0

\* C10: two toggles of the same present id, processed one right after the
\* other, yield a collection with the entries, in order, that it had
\* before the first.
C10_ToggleTwice ==
  \A k \in DOMAIN applied :
    (/\ k + 1 \in DOMAIN applied
     /\ calls[k].op = "toggle"
     /\ calls[k + 1].op = "toggle"
     /\ calls[k + 1].id = calls[k].id
     /\ HasId(applied[k].before, calls[k].id)) =>
      /\ applied[k + 1].before = applied[k].after
      /\ Content(applied[k + 1].after) = Content(applied[k].before)

\* Two toggles in a row of an entry that an earlier toggle had checked.
C10_Witness ==
  \E k \in DOMAIN applied :
    /\ k + 1 \in DOMAIN applied
    /\ calls[k].op = "toggle"
    /\ calls[k + 1].op = "toggle"
    /\ calls[k + 1].id = calls[k].id
    /\ \E x \in 1..Len(applied[k].before) :
         /\ heap[applied[k].before[x]].id = calls[k].id
         /\ heap[applied[k].before[x]].checked

----------------------------------------------------------------------------
\* The scenario "insert a, b, c; remove; toggle", run on App.

ScenarioSeedLast == 2     \* last index of the seeding loop in the scenario
ScenarioCalls == 5        \* number of handle invocations of the scenario
ScenarioTexts == <<"a", "b", "c">>
ScenarioIds == {1, 2, NextIdInit + 1, NextIdInit + 2}

ScenarioInit ==
  /\ AppInit(ScenarioSeedLast)
  /\ ViewInit(ListViewport)
  /\ ReducerInit(ScenarioSeedLast)

\* The first three calls are inserts, the later ones removes and toggles.
ScenarioNext ==
  \/ /\ Len(calls) < Len(ScenarioTexts)
     /\ \E i \in DOMAIN ScenarioTexts : Insert(ScenarioTexts[i])
  \/ /\ Len(calls) >= Len(ScenarioTexts)
     /\ Len(calls) < ScenarioCalls
     /\ \E id \in ScenarioIds : Remove(id)
  \/ /\ Len(calls) >= Len(ScenarioTexts)
     /\ Len(calls) < ScenarioCalls
     /\ \E id \in ScenarioIds : Toggle(id)
  \/ Commit

ScenarioSpec == ScenarioInit /\ [][ScenarioNext]_vars

\* The first three calls were insert "a", insert "b", insert "c".
InsertedABC ==
  /\ Len(calls) >= 3
  /\ \A i \in 1..3 : calls[i].op = "insert" /\ calls[i].text = ScenarioTexts[i]

\* The scenario has run to its end with remove(rid) and toggle(tid).
ScenarioDone(rid, tid) ==
  /\ InsertedABC
  /\ Len(calls) >= 5
  /\ calls[4].op = "remove" /\ calls[4].id = rid
  /\ calls[5].op = "toggle" /\ calls[5].id = tid
  /\ Len(applied) = 5

InsertedIds == [i \in 1..3 |-> heap[calls[i].todo].id]

\* C11 as stated: the three inserts get the ids 0, 1, 2, and after
\* remove(1) and toggle(2) the collection is [{0,a,false},{2,c,true}].
C11_ScenarioAsStated ==
  /\ InsertedABC => InsertedIds = <<0, 1, 2>>
  /\ ScenarioDone(1, 2) =>
       Content(todos) = <<[id |-> 0, text |-> "a", checked |-> FALSE],
                          [id |-> 2, text |-> "c", checked |-> TRUE]>>

\* C11, amended: the three inserts get the ids 25001, 25002, 25003, and
\* after remove(25002) and toggle(25003) the collection is the seed
\* entries followed by [{25001,a,false},{25003,c,true}].
C11_Scenario ==
  /\ InsertedABC =>
       InsertedIds = <<NextIdInit, NextIdInit + 1, NextIdInit + 2>>
  /\ ScenarioDone(NextIdInit + 1, NextIdInit + 2) =>
       Content(todos) =
         BulkTodos(ScenarioSeedLast) \o
           <<[id |-> NextIdInit, text |-> "a", checked |-> FALSE],
             [id |-> NextIdInit + 2, text |-> "c", checked |-> TRUE]>>

\* The scenario has run to its end, the last two calls in one batch.
C11_Witness ==
  /\ ScenarioDone(NextIdInit + 1, NextIdInit + 2)
  /\ queue = <<>>
  /\ Len(todos) = ScenarioSeedLast + 3

----------------------------------------------------------------------------
\* The comparison of React.memo.

\* Props a row could be given in this state: any entry object, and for
\* each callback the function the hook holds or the one this render made.
HandleIdSpace(n) == {HandleId(handles[n]), [fn |-> n, born |-> renders + 1]}

PropsSpace ==
  {[todo |-> r, onRemove |-> x, onToggle |-> y] :
     r \in DOMAIN heap,
     x \in HandleIdSpace("onRemove"), y \in HandleIdSpace("onToggle")}

\* The props the rows on screen hold from their last render.
ShownProps == {slots[k].props : k \in DOMAIN slots} \ {NoProps}

\* A component of the key (entryId, text, checked, onToggle, onRemove)
\* differs between the two props.
KeyDiffers(prev, next) ==
  \/ heap[prev.todo].id # heap[next.todo].id
  \/ heap[prev.todo].text # heap[next.todo].text
  \/ heap[prev.todo].checked # heap[next.todo].checked
  \/ prev.onToggle # next.onToggle
  \/ prev.onRemove # next.onRemove

\* The entry object or a callback is another object than before.
ReferenceDiffers(prev, next) ==
  \/ prev.todo # next.todo
  \/ prev.onToggle # next.onToggle
  \/ prev.onRemove # next.onRemove

\* C12 as stated: a row is rendered again if and only if a component of
\* its key differs.
C12_RecomputeAsStated ==
  \A c \in lastEvent.compared : c.recompute <=> KeyDiffers(c.prev, c.next)

\* C12, amended: a row is rendered again if and only if the entry object,
\* onToggle or onRemove is another object than before; so it is rendered
\* again whenever a component of the key differs (checked among them), and
\* not when the entry object and both callbacks are the same.
C12_Recompute ==
  /\ \A c \in lastEvent.compared :
       /\ c.recompute <=> ReferenceDiffers(c.prev, c.next)
       /\ KeyDiffers(c.prev, c.next) => c.recompute
  /\ \A prev \in ShownProps, next \in PropsSpace :
       /\ ShouldRecompute(prev, next) <=> ReferenceDiffers(prev, next)
       /\ KeyDiffers(prev, next) => ShouldRecompute(prev, next)
       /\ heap[prev.todo].checked # heap[next.todo].checked
            => ShouldRecompute(prev, next)

\* A render after which one row was compared and skipped and another was
\* rendered again although its entry is a copy with the same content (two
\* toggles in one batch), after an earlier render in which a row was
\* rendered again with checked changed.
C12_Witness ==
  /\ lastEvent.kind = "collection"
  /\ renders = 2
  /\ \E c \in lastEvent.compared : ~c.recompute
  /\ \E c \in lastEvent.compared :
       c.recompute /\ ~KeyDiffers(c.prev, c.next)
  /\ \E k \in DOMAIN slots : slots[k].shown.checked

----------------------------------------------------------------------------
\* The visible range as a function of its inputs.

RangeMaxLast == 5     \* collections of 0 .. RangeMaxLast + 1 entries
RangeMaxOverscan == 2
RangeRowHeights == {1, 2, 3, RowHeight}
RangeSizes == {1, 2, 5, ViewportSize}
RangeOffsets == {0, 1, 2, 3, 5, 8, RowHeight, 2 * RowHeight + 1}

RangeInit ==
  \E last \in -1..RangeMaxLast, h \in RangeRowHeights, v \in RangeSizes,
     o \in 0..RangeMaxOverscan :
    /\ AppInit(last)
    /\ ViewInit([scrollOffset |-> 0, viewportSize |-> v,
                 rowHeight |-> h, overscan |-> o])
    /\ ReducerInit(last)

RangeNext == \E offset \in RangeOffsets : Scroll(offset)

RangeSpec == RangeInit /\ [][RangeNext]_vars

RangeSize(len, vp) == LastIndex(len, vp) - FirstIndex(len, vp)

\* C13: 0 <= firstIndex <= lastIndex <= length, the range the driver used
\* is [firstIndex, lastIndex), and with the other inputs as they are the
\* size of the range does not decrease when viewportSize grows.
C13_RangeBounds ==
  LET len == Len(todos)
  IN /\ 0 <= FirstIndex(len, viewport)
     /\ FirstIndex(len, viewport) <= LastIndex(len, viewport)
     /\ LastIndex(len, viewport) <= len
     /\ lastEvent.range =
          {i \in 0..(len - 1) : /\ FirstIndex(len, viewport) <= i
                               /\ i < LastIndex(len, viewport)}
     /\ \A v1, v2 \in RangeSizes \cup {3, 4} :
          v1 <= v2 =>
            RangeSize(len, [viewport EXCEPT !.viewportSize = v1])
              <= RangeSize(len, [viewport EXCEPT !.viewportSize = v2])

\* After a scroll to an offset that is not a multiple of the row height,
\* with overscan, the range starts after index 0 and ends before the end
\* of the collection, and a larger viewport would show more rows.
C13_Witness ==
  /\ lastEvent.kind = "scroll"
  /\ viewport.overscan > 0
  /\ viewport.scrollOffset % viewport.rowHeight # 0
  /\ 0 < FirstIndex(Len(todos), viewport)
  /\ LastIndex(Len(todos), viewport) < Len(todos)
  /\ RangeSize(Len(todos), viewport)
       < RangeSize(Len(todos), [viewport EXCEPT !.viewportSize = ViewportSize])

----------------------------------------------------------------------------
\* The list over a collection longer than the viewport, with scrolling.

ViewSeedLast == 21    \* last index of the seeding loop: 22 entries
ViewMaxCalls == 1     \* number of handle invocations explored
ViewMaxOverscan == 1
ViewTexts == {"a"}
ViewIds == {9, ViewSeedLast, ViewSeedLast + 9}
ViewOffsets == {0, 30, 10 * RowHeight, 13 * RowHeight + 19}

ViewSpecInit ==
  \E o \in 0..ViewMaxOverscan :
    /\ AppInit(ViewSeedLast)
    /\ ViewInit([ListViewport EXCEPT !.overscan = o])
    /\ ReducerInit(ViewSeedLast)

ViewNext ==
  \/ Len(calls) < ViewMaxCalls /\ \E text \in ViewTexts : Insert(text)
  \/ Len(calls) < ViewMaxCalls /\ \E id \in ViewIds : Remove(id)
  \/ Len(calls) < ViewMaxCalls /\ \E id \in ViewIds : Toggle(id)
  \/ Commit
  \/ \E offset \in ViewOffsets : Scroll(offset)

ViewSpec == ViewSpecInit /\ [][ViewNext]_vars

\* The configuration of the README's list, without overscan.
ReadmeList ==
  /\ viewport.rowHeight = 57
  /\ viewport.viewportSize = 513
  /\ viewport.overscan = 0

NumBound == Cardinality({k \in DOMAIN slots : slots[k].index # -1})

\* C14 as stated: with rowHeight 57, viewportSize 513 and overscan 0 the
\* range holds 9 indices at every offset that has 9 entries at or after
\* firstIndex.
C14_NineRowsAsStated ==
  (ReadmeList /\ Len(todos) - FirstIndex(Len(todos), viewport) >= 9) =>
    /\ RangeSize(Len(todos), viewport) = 9
    /\ Cardinality(lastEvent.range) = 9

\* C14, amended: with rowHeight 57, viewportSize 513 and overscan 0 the
\* range holds 9 indices at the offsets that are multiples of rowHeight
\* (with 9 entries at or after firstIndex), and 10 at the other offsets
\* (with 10 entries at or after firstIndex); that many slots are bound.
C14_NineRows ==
  LET len == Len(todos)
      left == len - FirstIndex(len, viewport)
      aligned == viewport.scrollOffset % viewport.rowHeight = 0
  IN ReadmeList =>
       /\ (aligned /\ left >= 9) =>
            /\ RangeSize(len, viewport) = 9
            /\ Cardinality(lastEvent.range) = 9
            /\ NumBound = 9
       /\ (~aligned /\ left >= 10) =>
            /\ RangeSize(len, viewport) = 10
            /\ Cardinality(lastEvent.range) = 10
            /\ NumBound = 10

\* The list scrolled to a multiple of rowHeight shows 9 rows after it has
\* shown 10 at an offset that is not one.
C14_Witness ==
  /\ ReadmeList
  /\ lastEvent.kind = "scroll"
  /\ viewport.scrollOffset = 10 * RowHeight
  /\ NumBound = 9
  /\ peak = 10

\* C15: with rowHeight 57, viewportSize 513, overscan 0 and more than 19
\* entries, the scroll from offset 0 to offset 570 moves firstIndex from 0
\* to 10, every slot that was bound (to an index in 0..9) is bound to an
\* index in 10..19 afterwards, and the slots are the same as before.
C15_ScrollRecycles ==
  [][(/\ ReadmeList
      /\ Len(todos) > 19
      /\ viewport.scrollOffset = 0
      /\ viewport'.scrollOffset = 570) =>
       /\ FirstIndex(Len(todos), viewport) = 0
       /\ FirstIndex(Len(todos'), viewport') = 10
       /\ Len(slots') = Len(slots)
       /\ \A k \in DOMAIN slots :
            slots[k].index # -1 =>
              /\ slots[k].index \in 0..9
              /\ slots'[k].index \in 10..19]_vars

\* The list at offset 570 after a scroll from offset 0: the slots that
\* showed the rows 0..8 show the rows 10..18.
C15_Witness ==
  /\ ReadmeList
  /\ Len(todos) > 19
  /\ lastEvent.kind = "scroll"
  /\ viewport.scrollOffset = 570
  /\ lastEvent.entering = 9
  /\ lastEvent.free = 9
  /\ lastEvent.before = 9
  /\ {slots[k].index : k \in DOMAIN slots} = 10..18

\* C16: every index of the visible range has exactly one slot bound to
\* it, that slot shows the entry the collection has at that index, and no
\* slot is bound to an index outside the range.
C16_NoStaleRow ==
  LET range == VisibleRange(Len(todos), viewport)
  IN /\ \A i \in range :
          /\ Cardinality({k \in DOMAIN slots : slots[k].index = i}) = 1
          /\ \A k \in DOMAIN slots :
               slots[k].index = i => slots[k].shown = heap[todos[i + 1]]
     /\ \A k \in DOMAIN slots :
          slots[k].index # -1 =>
            slots[k].index \in range /\ slots[k].index < Len(todos)

\* The list scrolled near its end, after the last entry was removed: the
\* slot that showed it is back in the pool, and the other rows are shown.
C16_Witness ==
  /\ Len(applied) = 1
  /\ calls[1].op = "remove" /\ calls[1].id = ViewSeedLast
  /\ lastEvent.kind = "collection"
  /\ viewport.scrollOffset > 10 * RowHeight
  /\ FreeSlots(slots) # {}
  /\ NumBound >= 8

\* The call whose update the last render processed.
LastCall == calls[Len(applied)]

SingleUpdate(op) ==
  /\ lastEvent.kind = "collection"
  /\ lastEvent.updates = 1
  /\ LastCall.op = op

\* C17 as stated: the render of a single toggle or remove asks at most one
\* visible row to render again.
C17_VisibleImpactAsStated ==
  (SingleUpdate("toggle") \/ SingleUpdate("remove")) =>
    Cardinality(lastEvent.requested) <= 1

\* C17, amended: the render of a single toggle asks at most one row to
\* render again, the one that shows the toggled entry; the render of a
\* single remove asks the rows at or after the index the removed entry had
\* to render again, and none when no entry had the id.
C17_VisibleImpact ==
  /\ SingleUpdate("toggle") =>
       /\ Cardinality(lastEvent.requested) <= 1
       /\ \A k \in lastEvent.requested : slots[k].shown.id = LastCall.id
  /\ SingleUpdate("remove") =>
       LET b == applied[Len(applied)].before
       IN IF HasId(b, LastCall.id)
          THEN \A x \in 1..Len(b) :
                 heap[b[x]].id = LastCall.id =>
                   lastEvent.requested =
                     {k \in DOMAIN slots :
                        slots[k].index # -1 /\ slots[k].index >= x - 1}
          ELSE lastEvent.requested = {}

\* A render of a single toggle of a visible entry.
C17_Witness ==
  /\ SingleUpdate("toggle")
  /\ Cardinality(lastEvent.requested) = 1
  /\ NumBound >= 9

\* C19: no step removes a slot; a step allocates slots only for the
\* indices that enter the range beyond the free slots of the pool; the
\* number of slots is at most the largest size of the visible range so far
\* plus twice the overscan.
C19_SlotPool ==
  /\ [](Len(slots) <= peak + 2 * viewport.overscan)
  /\ [][/\ Len(slots') >= Len(slots)
        /\ \A k \in DOMAIN slots : k \in DOMAIN slots'
        /\ Len(slots') > Len(slots) =>
             /\ lastEvent'.entering > lastEvent'.free
             /\ Len(slots') - Len(slots)
                  = lastEvent'.entering - lastEvent'.free]_vars

\* A scroll bound entering indices to pooled slots and allocated one more.
C19_Witness ==
  /\ lastEvent.kind = "scroll"
  /\ lastEvent.free > 0
  /\ lastEvent.entering > lastEvent.free
  /\ Len(slots) = lastEvent.before + 1
  /\ viewport.overscan > 0

----------------------------------------------------------------------------
\* The entries of a collection over a given heap.
ContentIn(h, t) == [k \in 1..Len(t) |-> h[t[k]]]

\* C18: no step changes an object that exists, so the committed collection
\* and every collection recorded earlier keep their length, order and
\* entry contents; the snapshot the handles closed over at the first
\* render is still the seed.
C18_NoInPlaceMutation ==
  /\ [](\A n \in HandleNames :
          Content(handles[n].value.seen) = createBulkTodos)
  /\ [][/\ \A r \in DOMAIN heap : r \in DOMAIN heap' /\ heap'[r] = heap[r]
        /\ ContentIn(heap', todos) = ContentIn(heap, todos)
        /\ \A k \in DOMAIN applied :
             /\ applied'[k] = applied[k]
             /\ ContentIn(heap', applied[k].before)
                  = ContentIn(heap, applied[k].before)]_vars

\* An insert, a remove and a toggle of seed entries have been processed,
\* and the collection differs from the snapshot of the first render.
C18_Witness ==
  /\ NumApplied("insert") = 1
  /\ NumApplied("remove") = 1
  /\ NumApplied("toggle") = 1
  /\ \E k \in DOMAIN applied :
       calls[k].op = "toggle" /\ HasId(applied[k].before, calls[k].id)
  /\ Content(todos) # Content(handles["onInsert"].value.seen)

----------------------------------------------------------------------------
\* App and the useReducer App of the README, given the same requests.

EquivInsert(text) ==
  OnInsert(text) /\ ReducerOnInsert(text) /\ UNCHANGED viewVars

EquivRemove(id) == OnRemove(id) /\ ReducerOnRemove(id) /\ UNCHANGED viewVars

EquivToggle(id) == OnToggle(id) /\ ReducerOnToggle(id) /\ UNCHANGED viewVars

EquivCommit == Render /\ CollectionChanged /\ ReducerRender

EquivNext ==
  \/ Len(calls) < MaxCalls /\ \E text \in Texts : EquivInsert(text)
  \/ Len(calls) < MaxCalls /\ \E id \in IdChoices : EquivRemove(id)
  \/ Len(calls) < MaxCalls /\ \E id \in IdChoices : EquivToggle(id)
  \/ EquivCommit

EquivSpec == Init /\ [][EquivNext]_vars

\* C20: after the same requests from the same collection and counter, the
\* useReducer App holds the same entries, ids included, as App.
C20_ReducerEquivalent ==
  (queue = <<>> /\ rQueue = <<>>) => rTodos = Content(todos)

============================================================================
